---- MODULE Spec2Model ----
(***************************************************************************)
(* A model of express-requesthandler (src/lib/index.ts): the decorator     *)
(* `request` binds a class method to a router and, per incoming request,   *)
(* resolves the method's parameters, calls the method and routes its       *)
(* outcome to the response.  The file holds two variants of `request`:     *)
(*   "implicit"  lines 10-120: parameters searched in query, body, headers *)
(*   "explicit"  lines 154-265: parameters read from one configured source *)
(* Both are modelled; every handler of the catalogue names its variant.    *)
(***************************************************************************)
EXTENDS Integers, Sequences, FiniteSets, TLC

(***************************************************************************)
(* JavaScript values.  A value is a record [t, v]: t is the runtime type   *)
(* and v a canonical text of the value.                                    *)
(***************************************************************************)
Str(s) == [t |-> "string", v |-> s]
Num(s) == [t |-> "number", v |-> s]
Bool(b) == [t |-> "boolean", v |-> IF b THEN "true" ELSE "false"]
Arr(s) == [t |-> "array", v |-> s]
Obj(s) == [t |-> "object", v |-> s]
OId(s) == [t |-> "ObjectID", v |-> s]
DateV(s) == [t |-> "Date", v |-> s]
Undef == [t |-> "undefined", v |-> ""]
ReqRef == [t |-> "Request", v |-> ""]
ResRef == [t |-> "Response", v |-> ""]

HexId == "507f1f77bcf86cd799439011"
IsoDate == "2020-01-01"

\* An object as a finite map from property names to values.
EmptyObj == [k \in {} |-> Undef]
Prop(k, val) == [x \in {k} |-> val]
Props2(k1, v1, k2, v2) == [x \in {k1, k2} |-> IF x = k1 THEN v1 ELSE v2]
\* obj[k] = val
SetProp(obj, k, val) == [x \in (DOMAIN obj) \cup {k} |-> IF x = k THEN val ELSE obj[x]]
\* k in obj
HasProp(obj, k) == k \in DOMAIN obj

(***************************************************************************)
(* The characters of strings.  TLA+ strings are atoms, so a string the     *)
(* code parses is looked up in CharsOf, the characters of every string of  *)
(* the model, and a text the code builds is joined from its characters.    *)
(***************************************************************************)
\* The largest magnitude of the numbers that are encoded and resolved.
MaxNum == 12
\* The longest array that is encoded and resolved.
MaxLen == 2
\* The numbers, and the elements and arrays of JSON values.
Nums == (0 - MaxNum) .. MaxNum
Elems == {0 - 3, 1, 2, 10}
Arrays == UNION {[1 .. n -> Elems] : n \in 0 .. MaxLen}

Digit == <<"0", "1", "2", "3", "4", "5", "6", "7", "8", "9">>
IsDigit(c) == \E d \in 1 .. 10 : Digit[d] = c
DigitValue(c) == (CHOOSE d \in 1 .. 10 : Digit[d] = c) - 1

RECURSIVE Join(_)
Join(cs) == IF cs = <<>> THEN "" ELSE cs[1] \o Join(Tail(cs))

\* Number.prototype.toString of an integer: what String(n) and
\* JSON.stringify(n) give.
RECURSIVE DigitsOf(_)
DigitsOf(n) ==
    IF n < 10 THEN <<Digit[n + 1]>> ELSE Append(DigitsOf(n \div 10), Digit[(n % 10) + 1])
NumberToString(n) == IF n < 0 THEN <<"-">> \o DigitsOf(0 - n) ELSE DigitsOf(n)
\* The canonical text of a number value.
NumText(n) == Join(NumberToString(n))

\* JSON.stringify of an array of integers
RECURSIVE JSONelements(_)
JSONelements(els) ==
    IF els = <<>> THEN <<>>
    ELSE IF Len(els) = 1 THEN NumberToString(els[1])
    ELSE NumberToString(els[1]) \o <<",">> \o JSONelements(Tail(els))
JSONstringify(els) == <<"[">> \o JSONelements(els) \o <<"]">>

\* The strings of the model, by their characters.
HexIdChars == <<"5", "0", "7", "f", "1", "f", "7", "7", "b", "c", "f", "8", "6", "c", "d", "7", "9", "9", "4", "3", "9", "0", "1", "1">>
IsoDateChars == <<"2", "0", "2", "0", "-", "0", "1", "-", "0", "1">>
RawTexts ==
    {<<>>, HexIdChars, IsoDateChars,
     <<"a">>,
     <<"x">>,
     <<"y">>,
     <<"z">>,
     <<"[", "1", ",", "2", "]">>,
     <<"[", "]">>,
     <<"[", "1", "]">>,
     <<"4", "2">>,
     <<"5">>,
     <<"1">>,
     <<"0">>}
Texts ==
    RawTexts \cup {NumberToString(n) : n \in Nums} \cup {JSONstringify(a) : a \in Arrays}
CharsOf == [s \in {Join(cs) : cs \in Texts} |-> CHOOSE cs \in Texts : Join(cs) = s]
\* The characters of the string s.
Chars(s) == CharsOf[s]

RECURSIVE TrimLeft(_)
TrimLeft(cs) == IF cs # <<>> /\ cs[1] = " " THEN TrimLeft(Tail(cs)) ELSE cs
RECURSIVE TrimRight(_)
TrimRight(cs) ==
    IF cs # <<>> /\ cs[Len(cs)] = " " THEN TrimRight(SubSeq(cs, 1, Len(cs) - 1)) ELSE cs
Trim(cs) == TrimRight(TrimLeft(cs))

\* The value of a run of decimal digits, -1 when the run is empty or holds
\* another character.
RECURSIVE DigitsValue(_, _)
DigitsValue(cs, acc) ==
    IF cs = <<>> THEN acc
    ELSE IF ~IsDigit(cs[1]) THEN 0 - 1
    ELSE DigitsValue(Tail(cs), 10 * acc + DigitValue(cs[1]))
Unsigned(cs) == IF cs = <<>> THEN 0 - 1 ELSE DigitsValue(cs, 0)

\* StringToNumber, the conversion of a string by Number(x): white space is
\* trimmed, the empty string is 0, a sign may precede the digits.  (No
\* string of the model has a fraction, an exponent or a radix prefix.)
StringToNumber(cs) ==
    LET t == Trim(cs)
        signed == t # <<>> /\ t[1] \in {"+", "-"}
        body == IF signed THEN Tail(t) ELSE t
    IN  IF t = <<>> THEN [nan |-> FALSE, val |-> 0]
        ELSE IF Unsigned(body) < 0 THEN [nan |-> TRUE, val |-> 0]
        ELSE [nan |-> FALSE, val |-> IF t[1] = "-" THEN 0 - Unsigned(body) ELSE Unsigned(body)]

\* A JSON number: an optional "-", then digits without a leading zero.
JSONNumber(cs) ==
    LET neg == cs # <<>> /\ cs[1] = "-"
        body == IF neg THEN Tail(cs) ELSE cs
    IN  IF Unsigned(body) < 0 \/ (Len(body) > 1 /\ body[1] = "0")
        THEN [ok |-> FALSE, val |-> 0]
        ELSE [ok |-> TRUE, val |-> IF neg THEN 0 - Unsigned(body) ELSE Unsigned(body)]

\* The pieces of a text between its commas.
RECURSIVE SplitFrom(_, _, _, _)
SplitFrom(cs, i, cur, acc) ==
    IF i > Len(cs) THEN Append(acc, cur)
    ELSE IF cs[i] = "," THEN SplitFrom(cs, i + 1, <<>>, Append(acc, cur))
    ELSE SplitFrom(cs, i + 1, Append(cur, cs[i]), acc)
Split(cs) == SplitFrom(cs, 1, <<>>, <<>>)

\* The JSON grammar for a number and for an array of numbers.  (No string
\* of the model holds another JSON text.)
ParseJSON(cs) ==
    LET t == Trim(cs)
        inner == Trim(SubSeq(t, 2, Len(t) - 1))
        pieces == IF inner = <<>> THEN <<>> ELSE Split(inner)
        fail == [ok |-> FALSE, kind |-> "none", elems |-> <<>>, num |-> 0]
    IN  IF Len(t) >= 2 /\ t[1] = "[" /\ t[Len(t)] = "]"
        THEN (IF \A k \in DOMAIN pieces : JSONNumber(Trim(pieces[k])).ok
              THEN [ok |-> TRUE, kind |-> "array",
                    elems |-> [k \in DOMAIN pieces |-> JSONNumber(Trim(pieces[k])).val],
                    num |-> 0]
              ELSE fail)
        ELSE IF JSONNumber(t).ok
        THEN [ok |-> TRUE, kind |-> "number", elems |-> <<>>, num |-> JSONNumber(t).val]
        ELSE fail

\* String.prototype.toLowerCase on the names of the model.
toLowerCase(s) ==
    CASE s = "Token" -> "token"
      [] s = "User" -> "user"
      [] OTHER -> s

\* typeof x === "string"
IsString(x) == x.t = "string"

\* Number(s) of every string of the model, as the canonical text of the
\* number; "NaN" is NaN.
NumberOfString ==
    [s \in DOMAIN CharsOf |->
        IF StringToNumber(CharsOf[s]).nan THEN "NaN" ELSE NumText(StringToNumber(CharsOf[s]).val)]
\* JSON.parse(s) of every string of the model.
ParsedJSON == [s \in DOMAIN CharsOf |-> ParseJSON(CharsOf[s])]

\* Number(x), the conversion behind isNaN(x) and +x, as the canonical text
\* of the number.  An array converts through its join(","): the empty array
\* to 0, an array of one number to that number.
ToNumber(x) ==
    CASE x.t = "number" -> x.v
      [] x.t = "string" -> NumberOfString[x.v]
      [] x.t = "boolean" -> (IF x.v = "true" THEN "1" ELSE "0")
      [] x.t = "array" ->
            (CASE Len(ParsedJSON[x.v].elems) = 0 -> "0"
               [] Len(ParsedJSON[x.v].elems) = 1 -> NumText(ParsedJSON[x.v].elems[1])
               [] OTHER -> "NaN")
      [] x.t = "Date" -> (IF x.v = "Invalid Date" THEN "NaN" ELSE "ms:" \o x.v)
      [] OTHER -> "NaN"

\* isNaN(x)
isNaN(x) == ToNumber(x) = "NaN"

\* x === 1 (strict equality with the number 1)
StrictEqOne(x) == x.t = "number" /\ x.v = "1"
\* x == 1 (loose equality with the number 1)
LooseEqOne(x) ==
    CASE x.t \in {"number", "string", "boolean"} -> ToNumber(x) = "1"
      [] x.t = "array" -> x.v = "[1]"
      [] OTHER -> FALSE

\* ObjectID.isValid(x) of bson: a 24 character hex string, a number, an ObjectID.
ObjectIDisValid(x) ==
    CASE x.t = "string" -> x.v = HexId
      [] x.t = "number" -> x.v # "NaN"
      [] x.t = "ObjectID" -> TRUE
      [] OTHER -> FALSE

\* new ObjectID(x), for a valid x
NewObjectID(x) == IF x.t = "ObjectID" THEN x ELSE OId(x.v)

\* new Date(x); v is "Invalid Date" when getTime() is NaN.
NewDate(x) ==
    CASE x.t = "string" ->
            (IF x.v \in {IsoDate, "5", "1", "0"} THEN DateV(x.v) ELSE DateV("Invalid Date"))
      [] x.t = "number" -> (IF x.v = "NaN" THEN DateV("Invalid Date") ELSE DateV(x.v))
      [] x.t = "boolean" -> DateV(ToNumber(x))
      [] x.t = "Date" -> x
      [] OTHER -> DateV("Invalid Date")

\* JSON.parse(s) of a string; ok = FALSE when it throws.
JSONparse(s) ==
    LET p == ParsedJSON[s]
    IN  CASE p.ok /\ p.kind = "array" -> [ok |-> TRUE, val |-> Arr(Join(JSONstringify(p.elems)))]
          [] p.ok /\ p.kind = "number" -> [ok |-> TRUE, val |-> Num(NumText(p.num))]
          [] OTHER -> [ok |-> FALSE, val |-> Undef]

\* x instanceof Array
IsArray(x) == x.t = "array"

(***************************************************************************)
(* Declared parameter types (design:paramtypes) and the coercion switch.   *)
(***************************************************************************)
Types == {"String", "Number", "Boolean", "ObjectID", "Date", "Array", "Any"}

\* The text an assertion message ends with, per declared type.
Expected(type) ==
    CASE type = "String" -> " should be a string"
      [] type = "Number" -> " should be a number"
      [] type = "ObjectID" -> " should be an ObjectID"
      [] type = "Date" -> " should be a Date"
      [] type = "Array" -> " should be an array"
      [] OTHER -> ""

\* A message as the sequence of the pieces its template joins.
Message(label, type) == <<"Parameter ", label, Expected(type)>>

\* The array case: a string is replaced by its JSON.parse, or by "" when that throws.
ArrayInput(param) ==
    IF IsString(param)
    THEN (IF JSONparse(param.v).ok THEN JSONparse(param.v).val ELSE Str(""))
    ELSE param

\* switch (arg.type): ok is whether every assert passed, val the value the
\* variable holds when the switch is left (by break or by the failed assert).
Coerce(type, param, label) ==
    CASE type = "String" ->
            [ok |-> IsString(param), val |-> param, msg |-> Message(label, type)]
      [] type = "Number" ->
            [ok |-> ~isNaN(param),
             val |-> IF isNaN(param) THEN param ELSE Num(ToNumber(param)),
             msg |-> Message(label, type)]
      [] type = "Boolean" ->
            [ok |-> TRUE, val |-> Bool(LooseEqOne(param)), msg |-> Message(label, type)]
      [] type = "ObjectID" ->
            [ok |-> ObjectIDisValid(param),
             val |-> IF ObjectIDisValid(param) THEN NewObjectID(param) ELSE param,
             msg |-> Message(label, type)]
      [] type = "Date" ->
            [ok |-> NewDate(param).v # "Invalid Date", val |-> NewDate(param),
             msg |-> Message(label, type)]
      [] type = "Array" ->
            [ok |-> IsArray(ArrayInput(param)), val |-> ArrayInput(param),
             msg |-> Message(label, type)]
      [] OTHER -> [ok |-> TRUE, val |-> param, msg |-> Message(label, type)]

\* The text a template gives for the parameter in an assertion message:
\* ${arg.key} in the implicit variant, ${arg} (an object) in the explicit one.
Label(variant, key) == IF variant = "implicit" THEN key ELSE "[object Object]"

\* assert.fail(`Parameter ${arg.key} is missing in ` + method)
MissingMessage(key, method) == <<"Parameter ", key, " is missing in ", method>>

(***************************************************************************)
(* Handlers: a decorated method with what the decorator was given.         *)
(*   variant     "implicit" | "explicit"                                   *)
(*   type        "get" | "post" | "use"                                    *)
(*   paramsType  "query" | "body" | "headers" (explicit variant), else     *)
(*               "search"                                                  *)
(*   middleware  Undef (not given), Str(key) or Bool(TRUE)                 *)
(*   args        the method's parameters, <<[key, type], ...>>             *)
(***************************************************************************)
Arg(key, type) == [key |-> key, type |-> type]

Handler(method, variant, type, paramsType, middleware, args) ==
    [method |-> method, variant |-> variant, type |-> type,
     paramsType |-> paramsType, middleware |-> middleware, args |-> args]

(***************************************************************************)
(* The catalogue of handlers, after the README's Routes classes.           *)
(***************************************************************************)
Typed(variant, T) ==
    Handler("typed", variant, "get", IF variant = "implicit" THEN "search" ELSE "query",
            Undef, <<Arg("param1", T)>>)
TypedHandlers == {Typed(v, T) : v \in {"implicit", "explicit"}, T \in Types}

\* A route of the explicit variant with one typed parameter read from paramsType.
TypedFrom(T, paramsType) ==
    Handler("typed", "explicit", "get", paramsType, Undef, <<Arg("param1", T)>>)

someRoute1(variant) ==
    Handler("someRoute1", variant, "get", IF variant = "implicit" THEN "search" ELSE "query",
            Undef, <<Arg("param1", "String"), Arg("param2", "Number")>>)
someRoute2 ==
    Handler("someRoute2", "explicit", "post", "body", Undef,
            <<Arg("param1", "String"), Arg("param2", "Number")>>)
\* @use("user"), implicit variant
mwUser == Handler("mwUser", "implicit", "use", "search", Str("user"), <<Arg("param1", "String")>>)
\* @use(ParamsType.HEADERS, "user")
mwHeaders == Handler("mwHeaders", "explicit", "use", "headers", Str("user"), <<Arg("Token", "String")>>)
\* @use(ParamsType.QUERY, "count")
mwNum == Handler("mwNum", "explicit", "use", "query", Str("count"), <<Arg("param1", "Number")>>)
\* @use(true), src/README.md line 26
mwTrue == Handler("someRoute3", "implicit", "use", "search", Bool(TRUE), <<Arg("param1", "String")>>)
\* @use("User")
mwUpper == Handler("mwUpper", "implicit", "use", "search", Str("User"), <<Arg("param1", "String")>>)
\* @use()
useNoKey == Handler("useNoKey", "implicit", "use", "search", Undef, <<Arg("param1", "String")>>)
someRoute4(variant) ==
    Handler("someRoute4", variant, "get", IF variant = "implicit" THEN "search" ELSE "query",
            Undef, <<Arg("user", "String")>>)
headerUser == Handler("headerUser", "explicit", "get", "headers", Undef, <<Arg("User", "String")>>)
tokenRoute == Handler("tokenRoute", "implicit", "get", "search", Undef, <<Arg("Token", "String")>>)
resOnly(variant) ==
    Handler("resOnly", variant, "get", IF variant = "implicit" THEN "search" ELSE "query",
            Undef, <<Arg("res", "Any")>>)
resMw == Handler("resMw", "implicit", "use", "search", Str("user"), <<Arg("res", "Any")>>)
resThenNum == Handler("resThenNum", "implicit", "get", "search", Undef,
                      <<Arg("res", "Any"), Arg("param1", "Number")>>)
reqAny == Handler("reqAny", "implicit", "get", "search", Undef,
                  <<Arg("req", "Any"), Arg("param1", "Any")>>)

\* A method without parameters: noArgs() { }
noArgs(variant) ==
    Handler("noArgs", variant, "get", IF variant = "implicit" THEN "search" ELSE "query",
            Undef, <<>>)
\* A method whose body calls a function: callsOut(a) { g(); }
callsOut(variant) ==
    Handler("callsOut", variant, "get", IF variant = "implicit" THEN "search" ELSE "query",
            Undef, <<Arg("a", "String")>>)

Catalogue ==
    TypedHandlers \cup
    {someRoute1("implicit"), someRoute1("explicit"), someRoute2,
     mwUser, mwHeaders, mwNum, mwTrue, mwUpper, useNoKey,
     someRoute4("implicit"), someRoute4("explicit"), headerUser, tokenRoute,
     resOnly("implicit"), resOnly("explicit"), resMw, resThenNum, reqAny}

\* Every decorated method of the model.
AllHandlers ==
    Catalogue
    \cup {noArgs(v) : v \in {"implicit", "explicit"}}
    \cup {callsOut(v) : v \in {"implicit", "explicit"}}
    \cup {TypedFrom(T, p) : T \in Types, p \in {"body", "headers"}}

(***************************************************************************)
(* The text of a method, desc.value.toString(), as a sequence of lexemes:  *)
(* names, "(", ")", ",", " " and the lexemes of the body.  Positions are   *)
(* counted from 1.                                                         *)
(***************************************************************************)
\* The statements between the braces.  The methods of the README have an
\* empty body; callsOut and noArgsCall call a function: g();
BodyText(h) ==
    IF h.method \in {"callsOut", "noArgsCall"}
    THEN <<" ", "g", "(", ")", ";", " ">>
    ELSE <<" ">>

\* The parameter list as it is written: a, b
RECURSIVE ParamList(_)
ParamList(args) ==
    IF args = <<>> THEN <<>>
    ELSE IF Len(args) = 1 THEN <<args[1].key>>
    ELSE <<args[1].key, ",", " ">> \o ParamList(Tail(args))

\* method(a, b) { body }
Fstr(h) ==
    <<h.method, "(">> \o ParamList(h.args) \o <<")", " ", "{">> \o BodyText(h) \o <<"}">>

\* fstr.indexOf(c): the first position of c
indexOf(text, c) ==
    CHOOSE i \in DOMAIN text : text[i] = c /\ \A j \in 1 .. (i - 1) : text[j] # c
\* fstr.lastIndexOf(c): the last position of c
lastIndexOf(text, c) ==
    CHOOSE i \in DOMAIN text : text[i] = c /\ \A j \in (i + 1) .. Len(text) : text[j] # c
\* fstr.slice(from, to): from position `from` up to, not including, `to`
slice(text, from, to) == SubSeq(text, from, to - 1)

\* text.match(/[^\s,]+/g): the maximal runs of lexemes that are neither white
\* space nor a comma, each run joined into one string; <<>> stands for null.
RECURSIVE matchFrom(_, _, _, _)
matchFrom(text, i, run, acc) ==
    IF i > Len(text)
    THEN (IF run = "" THEN acc ELSE Append(acc, run))
    ELSE IF text[i] \in {" ", ","}
    THEN matchFrom(text, i + 1, "", IF run = "" THEN acc ELSE Append(acc, run))
    ELSE matchFrom(text, i + 1, run \o text[i], acc)
match(text) == matchFrom(text, 1, "", <<>>)

\* The parameter names read from the text up to the last ")".
ArgKeysToLast(h) ==
    match(slice(Fstr(h), indexOf(Fstr(h), "(") + 1, lastIndexOf(Fstr(h), ")")))
\* The parameter names read from the text: the implicit variant slices up
\* to the first ")", functionParameters of the explicit variant up to the
\* last ")".
ArgKeys(h) ==
    IF h.variant = "implicit"
    THEN match(slice(Fstr(h), indexOf(Fstr(h), "(") + 1, indexOf(Fstr(h), ")")))
    ELSE ArgKeysToLast(h)

\* Reflect.getMetadata("design:paramtypes", target, method)[i]: the declared
\* type of the i-th parameter, undefined past the last parameter.
ArgType(h, i) == IF i \in DOMAIN h.args THEN h.args[i].type ELSE "undefined"

\* The closure's args: argKeys zipped with argTypes; the explicit variant
\* lower-cases every key when the source is the headers.
ArgsOf(h) ==
    IF h.variant = "explicit" /\ h.paramsType = "headers"
    THEN [i \in DOMAIN ArgKeys(h) |-> Arg(toLowerCase(ArgKeys(h)[i]), ArgType(h, i))]
    ELSE [i \in DOMAIN ArgKeys(h) |-> Arg(ArgKeys(h)[i], ArgType(h, i))]
\* The args of every method, as the decorator computes them once, when it
\* is applied.
Registered == [h \in AllHandlers |-> ArgsOf(h)]
\* The args the closure of h holds.
RegisteredArgs(h) == Registered[h]

\* "/" + (type !== "use" ? method : "")
RoutePath(h) == IF h.type # "use" THEN <<"/", h.method>> ELSE <<"/">>

\* if (middleware)
Truthy(x) ==
    CASE x.t = "string" -> x.v # ""
      [] x.t = "boolean" -> x.v = "true"
      [] x.t = "undefined" -> FALSE
      [] OTHER -> TRUE

\* res.locals.middleware = doc: the property named "middleware".
PropertyKeyLiteral(x) == "middleware"
\* The property key res.locals[middleware] uses.
PropertyKey(x) == x.v

(***************************************************************************)
(* Parameter resolution: the loop over args of the request closure.        *)
(* A request rq is [query, body, headers]; loc is res.locals.              *)
(***************************************************************************)
\* The implicit search with the body before the query.
SourceOfBodyFirst(h, key, rq) ==
    IF h.variant = "implicit"
    THEN (CASE HasProp(rq.body, key) -> "body"
            [] HasProp(rq.query, key) -> "query"
            [] HasProp(rq.headers, toLowerCase(key)) -> "headers"
            [] OTHER -> "none")
    ELSE (IF HasProp(rq[h.paramsType], key) THEN h.paramsType ELSE "none")

\* The source the default case reads a parameter from, "none" when it is in
\* no source.  Implicit variant: query, then body, then the headers under
\* the lower-cased name.  Explicit variant: params = req[paramsType] only.
SourceOf(h, key, rq) ==
    IF h.variant = "implicit"
    THEN (CASE HasProp(rq.query, key) -> "query"
            [] HasProp(rq.body, key) -> "body"
            [] HasProp(rq.headers, toLowerCase(key)) -> "headers"
            [] OTHER -> "none")
    ELSE (IF HasProp(rq[h.paramsType], key) THEN h.paramsType ELSE "none")

\* The property name read in that source.
SourceKey(h, key, src) ==
    IF h.variant = "implicit" /\ src = "headers" THEN toLowerCase(key) ELSE key

\* Where the coerced value goes: the implicit variant keeps it in the local
\* `param`, the explicit variant assigns it to params[arg.key].
StoreCoerced(h, rq, src, key, val) ==
    IF h.variant = "explicit"
    THEN [rq EXCEPT ![src] = SetProp(rq[src], key, val)]
    ELSE rq

\* One iteration of the loop: switch (arg.key).
\* src is the source the parameter is in and c its coercion, the switch
\* (arg.type) on the value read there.
ResolveCase(h, arg, rq, loc, src, c) ==
    CASE arg.key = "req" ->
            [ok |-> TRUE, val |-> ReqRef, rq |-> rq, src |-> "req", msg |-> <<>>]
      [] arg.key = "res" ->
            [ok |-> TRUE, val |-> ResRef, rq |-> rq, src |-> "res", msg |-> <<>>]
      [] HasProp(loc, arg.key) ->
            [ok |-> TRUE, val |-> loc[arg.key], rq |-> rq, src |-> "locals", msg |-> <<>>]
      [] src # "none" ->
            [ok |-> c.ok, val |-> c.val,
             rq |-> StoreCoerced(h, rq, src, arg.key, c.val),
             src |-> src, msg |-> c.msg]
      [] OTHER ->
            [ok |-> FALSE, val |-> Undef, rq |-> rq, src |-> "none",
             msg |-> MissingMessage(arg.key, h.method)]
ResolveIn(h, arg, rq, loc, src) ==
    ResolveCase(h, arg, rq, loc, src,
        Coerce(arg.type, rq[src][SourceKey(h, arg.key, src)], Label(h.variant, arg.key)))
ResolveArg(h, arg, rq, loc) == ResolveIn(h, arg, rq, loc, SourceOf(h, arg.key, rq))

\* case "res" without `respond = false`.
RespondAfterKept(flag, key) == flag
\* `respond` after the iteration for key: case "res" clears it.
RespondAfter(flag, key) == flag /\ key # "res"

\* The loop's state after the iteration for arg, which yielded `one`.
AfterArg(acc, arg, one) ==
    [ok |-> one.ok,
     argValues |-> IF one.ok THEN Append(acc.argValues, one.val) ELSE acc.argValues,
     respond |-> RespondAfter(acc.respond, arg.key),
     rq |-> one.rq,
     resolved |-> Append(acc.resolved,
                    [key |-> arg.key, src |-> one.src, ok |-> one.ok, msg |-> one.msg]),
     msg |-> one.msg]
\* The iteration for arg.
Iterate(h, arg, loc, acc) == AfterArg(acc, arg, ResolveArg(h, arg, acc.rq, loc))

\* The loop without the `return` of its catch block.
RECURSIVE ResolveFromNoReturn(_, _, _, _)
ResolveFromNoReturn(h, i, loc, acc) ==
    IF i > Len(RegisteredArgs(h))
    THEN acc
    ELSE ResolveFromNoReturn(h, i + 1, loc, Iterate(h, RegisteredArgs(h)[i], loc, acc))

\* The loop from the i-th parameter on; it is left at the first failure.
\* acc: ok, argValues, respond, rq (the request, as assigned to so far),
\* resolved (the parameters the loop has reached, each with its source), msg.
RECURSIVE ResolveFrom(_, _, _, _)
ResolveFrom(h, i, loc, acc) ==
    IF i > Len(RegisteredArgs(h)) \/ ~acc.ok
    THEN acc
    ELSE ResolveFrom(h, i + 1, loc, Iterate(h, RegisteredArgs(h)[i], loc, acc))

\* The whole loop, from argValues = [] and respond = true.
ResolveArgs(h, rq, loc) ==
    ResolveFrom(h, 1, loc,
        [ok |-> TRUE, argValues |-> <<>>, respond |-> TRUE, rq |-> rq,
         resolved |-> <<>>, msg |-> <<>>])

(***************************************************************************)
(* What a handler's body does when it is called: user code, drawn from a   *)
(* bounded set.  kind "return" with the value, or "throw" with the failure *)
(* and the status property it carries ("none": no such property); async    *)
(* says whether the outcome comes through a returned promise; wrote is     *)
(* what the body itself sent through res before that.                      *)
(***************************************************************************)
Err(msg) == [t |-> "Error", v |-> msg]
Circular == Obj("circular")
UserObj == Obj("{user:u1}")

Outcome(kind, val, status, async, wrote) ==
    [kind |-> kind, val |-> val, status |-> status, async |-> async, wrote |-> wrote]

ReturnValues == {Undef, Str("userId"), UserObj, Circular}
Failures == {<<Err("not found"), "404">>, <<Err("boom"), "none">>, <<Undef, "none">>}

\* The fields of a returned object.
Fields(val) == IF val = UserObj THEN Prop("user", Str("u1")) ELSE EmptyObj

\* JSON.stringify(val) throws on a circular structure.
Serialisable(val) == val # Circular

\* err.toString() throws when err is undefined.
HasToString(err) == err.t # "undefined"
\* err.toString(), as the pieces of the text.
ErrToString(err) == IF err.t = "Error" THEN <<"Error: ", err.v>> ELSE <<err.v>>
\* err.message
ErrMessage(err) == IF err.t = "Error" THEN <<err.v>> ELSE <<>>

\* The JSON payload { error: text }.
ErrorBody(text) == [t |-> "errorBody", v |-> text]

DeclaresRes(h) == \E i \in DOMAIN RegisteredArgs(h) : RegisteredArgs(h)[i].key = "res"

\* Every outcome of a body: each value and each failure, sync and async.
AllOutcomes(wrote) ==
    {Outcome("return", v, "none", a, w) : v \in ReturnValues, a \in BOOLEAN, w \in wrote}
    \cup {Outcome("throw", f[1], f[2], a, w) : f \in Failures, a \in BOOLEAN, w \in wrote}

FewOutcomes ==
    {Outcome("return", Str("userId"), "none", FALSE, "none"),
     Outcome("return", Undef, "none", TRUE, "none"),
     Outcome("throw", Err("boom"), "none", TRUE, "none")}

\* src/README.md line 28: return { user: "userId" }
MergeOutcomes ==
    {Outcome("return", UserObj, "none", FALSE, "none"),
     Outcome("return", Str("userId"), "none", TRUE, "none"),
     Outcome("throw", Err("boom"), "none", FALSE, "none")}

PassOutcomes ==
    {Outcome("return", Str("userId"), "none", FALSE, "none"),
     Outcome("throw", Err("boom"), "none", TRUE, "none")}

\* The bodies the model gives each handler of the catalogue.
Outcomes(h) ==
    CASE h.method = "typed" -> {Outcome("return", Undef, "none", FALSE, "none")}
      [] h.method \in {"resOnly", "resMw"} /\ h.variant = "implicit" ->
            AllOutcomes({"none", "partial", "full"})
      [] h.method \in {"mwUser", "useNoKey", "someRoute4"} -> AllOutcomes({"none"})
      [] h.method = "someRoute3" -> MergeOutcomes
      [] h.method \in {"mwHeaders", "mwNum", "mwUpper", "noArgs", "callsOut"} -> PassOutcomes
      [] OTHER -> FewOutcomes

(***************************************************************************)
(* Requests.                                                               *)
(***************************************************************************)
Request(query, body, headers) == [query |-> query, body |-> body, headers |-> headers]

RawStrings == {"a", "5", "1", "[1,2]", HexId, IsoDate}
BodyValues == {Str("5"), Num("5"), Arr("[1,2]"), Bool(TRUE)}

Requests ==
    {Request(Prop("param1", Str(s)), EmptyObj, EmptyObj) : s \in RawStrings}
    \cup {Request(Props2("param1", Str("a"), "param2", Str(w)), EmptyObj, EmptyObj) : w \in {"5", "x"}}
    \cup {Request(q, Prop("param1", b), EmptyObj) :
            q \in {EmptyObj, Prop("param1", Str("a"))}, b \in BodyValues}
    \cup {Request(q, Prop("param1", Str("5")), Prop("param1", Str("1"))) :
            q \in {EmptyObj, Prop("param1", Str("a"))}}
    \cup {Request(EmptyObj, Props2("param1", Str("a"), "param2", Str(w)), EmptyObj) : w \in {"5", "x"}}
    \cup {Request(EmptyObj, EmptyObj, hd) :
            hd \in {EmptyObj, Prop("param1", Str("1")), Prop("user", Str("1"))}}
    \cup {Request(q, EmptyObj, Prop("token", Str("a"))) : q \in {EmptyObj, Prop("Token", Str("5"))}}
    \cup {Request(Props2("param1", Str("a"), "user", Str("a")), EmptyObj, EmptyObj)}

(***************************************************************************)
(* Bounds.                                                                 *)
(***************************************************************************)
\* The longest pipeline of matching routes a request passes through.
MaxChain == 2
\* The requests in flight together in SpecConc.
MaxRequests == 2
\* The decorators applied in SpecReg.
MaxRegs == 2

(***************************************************************************)
(* State.  Every variable is a function of the request in flight.          *)
(*   reqs     the request's query, body and headers                        *)
(*   locals   res.locals, the per-request context                          *)
(*   sent     the response: headersSent, ended                             *)
(*   chain    the handlers whose closure the router has called, in order   *)
(*   pc       "routed": the router is about to call the next matching      *)
(*            closure; "awaiting": the closure has called the handler and  *)
(*            result.then waits; "done": nothing of the layer is pending   *)
(*   pending  the outcome the called handler's promise will settle with    *)
(*   respond  the closure's `respond` flag                                 *)
(*   log      what has happened to the request, in order                   *)
(* And of the classes that own routes:                                     *)
(*   router   target.router of each class: whether it has a value, and the *)
(*            routes registered on it, in order                            *)
(*   regs     the decorators applied so far, each with what it threw       *)
(***************************************************************************)
VARIABLES reqs, locals, sent, chain, pc, pending, respond, log, router, regs

vars == <<reqs, locals, sent, chain, pc, pending, respond, log, router, regs>>

Ids == DOMAIN reqs

Ev(ev, stage, key, val, status, args) ==
    [ev |-> ev, stage |-> stage, key |-> key, val |-> val, status |-> status, args |-> args]

NoOutcome == Outcome("none", Undef, "none", TRUE, "none")
FreshResponse == [headersSent |-> FALSE, ended |-> FALSE]

\* One `respond` for the route, declared outside the closure.
RespondSlotShared(r) == 1
\* `let respond = true` is a variable of the closure's call: one per request.
RespondSlot(r) == r

\* res.status(status).json(body): throws when body cannot be serialised or
\* the headers are already sent; otherwise sends the response and ends it.
JsonWrite(s, stage, status, body) ==
    IF ~Serialisable(body) \/ s.headersSent
    THEN [threw |-> TRUE, sent |-> s, evs |-> <<>>]
    ELSE [threw |-> FALSE, sent |-> [headersSent |-> TRUE, ended |-> TRUE],
          evs |-> <<Ev("json", stage, "", body, status, <<>>)>>]

\* res.write(chunk); res.end(): neither throws; a write after the end is dropped.
RawWrite(s, stage, body) ==
    [sent |-> [headersSent |-> TRUE, ended |-> TRUE],
     evs |-> <<Ev(IF s.ended THEN "writeAfterEnd" ELSE "raw", stage, "", body, "", <<>>),
               Ev("end", stage, "", Undef, "", <<>>)>>]

\* What the handler's body sent through res before its outcome.
BodyWrite(s, stage, wrote) ==
    CASE wrote = "partial" ->
            [sent |-> [headersSent |-> TRUE, ended |-> s.ended],
             evs |-> <<Ev("handlerWrite", stage, "", Undef, "", <<>>)>>]
      [] wrote = "full" ->
            [sent |-> [headersSent |-> TRUE, ended |-> TRUE],
             evs |-> <<Ev("handlerWrite", stage, "", Undef, "", <<>>),
                       Ev("handlerEnd", stage, "", Undef, "", <<>>)>>]
      [] OTHER -> [sent |-> s, evs |-> <<>>]

ResolveEvents(stage, resolved) ==
    [i \in DOMAIN resolved |->
        Ev("resolve", stage, resolved[i].key, Str(resolved[i].src),
           IF resolved[i].ok THEN "ok" ELSE "failed", resolved[i].msg)]

\* The status of the 400 reply to a failed resolution.
BadRequestStatus == "400"
\* The handler called inside the try block of the parameter loop: a
\* synchronous throw is answered like a failed resolution.
FailureStatusBySyncness(o) == IF o.async THEN "500" ELSE "400"
\* The status the failure carries, when it carries one.
FailureStatusCarried(o) == IF o.status # "none" THEN o.status ELSE "500"
\* The status of the reply to a failed handler: res.status(500).
FailureStatus(o) == "500"
\* The rejection callback only when the flag is set.
WritesFailureIfRespond(flag) == flag
\* Whether the rejection callback writes the failure, given `respond`: it
\* does not read the flag.
WritesFailure(flag) == TRUE
\* The text of that reply: err.toString().
FailureText(err) == ErrToString(err)
\* res.json(doc) leaves the status at its default.
SuccessStatus == "200"

\* The classes: Routes declares `static router = express.Router()`
\* (src/README.md line 10), Bare declares `static router: express.Router`
\* and gives it no value (line 276).
Scopes == {"Routes", "Bare"}
\* express.Router(): a routing table without routes
NewRouter == [present |-> TRUE, routes |-> <<>>]
\* target.router is undefined
NoRouter == [present |-> FALSE, routes |-> <<>>]
DeclaredRouters == [s \in Scopes |-> IF s = "Routes" THEN NewRouter ELSE NoRouter]

InitWith(ids, requests) ==
    /\ router = DeclaredRouters
    /\ regs = <<>>
    /\ reqs \in [ids -> requests]
    /\ locals = [r \in ids |-> EmptyObj]
    /\ sent = [r \in ids |-> FreshResponse]
    /\ chain = [r \in ids |-> <<>>]
    /\ pc = [r \in ids |-> "routed"]
    /\ pending = [r \in ids |-> NoOutcome]
    /\ respond = [r \in ids |-> TRUE]
    /\ log = [r \in ids |-> <<>>]

Init == InitWith({1}, Requests)

(***************************************************************************)
(* The closure registered on the router, up to `result.then(...)`: the     *)
(* router calls it for request r on handler h.                             *)
(***************************************************************************)
\* The closure's body at the given stage of the chain, res being what the
\* loop over args left: the 400 of the catch block, or the call of the method.
Handle(r, h, stage, res) ==
    LET bad == JsonWrite(sent[r], stage, BadRequestStatus, ErrorBody(res.msg))
    IN  /\ chain' = [chain EXCEPT ![r] = Append(@, h)]
        /\ reqs' = [reqs EXCEPT ![r] = res.rq]
        /\ respond' = [respond EXCEPT ![RespondSlot(r)] = res.respond]
        /\ UNCHANGED <<locals, router, regs>>
        /\ IF ~res.ok
           THEN /\ sent' = [sent EXCEPT ![r] = bad.sent]
                /\ pc' = [pc EXCEPT ![r] = "done"]
                /\ pending' = pending
                /\ log' = [log EXCEPT ![r] =
                             @ \o ResolveEvents(stage, res.resolved) \o
                             (IF bad.threw
                              THEN <<Ev("escape", stage, "", Undef, "", <<>>)>>
                              ELSE bad.evs)]
           ELSE \E o \in Outcomes(h) :
                LET bw == BodyWrite(sent[r], stage, o.wrote)
                IN  /\ sent' = [sent EXCEPT ![r] = bw.sent]
                    /\ pc' = [pc EXCEPT ![r] = "awaiting"]
                    /\ pending' = [pending EXCEPT ![r] = o]
                    /\ log' = [log EXCEPT ![r] =
                                 @ \o ResolveEvents(stage, res.resolved) \o
                                 <<Ev("invoke", stage, h.method, Undef, "", res.argValues)>> \o
                                 bw.evs]

Dispatch(r, h) ==
    /\ pc[r] = "routed"
    /\ Len(chain[r]) < MaxChain
    \* a settled promise's callback runs before the router takes another request
    /\ \A q \in Ids : pc[q] = "awaiting" => pending[q].async
    /\ Handle(r, h, Len(chain[r]) + 1, ResolveArgs(h, reqs[r], locals[r]))

(***************************************************************************)
(* result.then's first callback: the handler's promise fulfilled with doc. *)
(***************************************************************************)
OnFulfilled(r) ==
    /\ pc[r] = "awaiting"
    /\ pending[r].kind = "return"
    /\ LET stage == Len(chain[r])
           h == chain[r][stage]
           doc == pending[r].val
           jw == JsonWrite(sent[r], stage, SuccessStatus, doc)
           settled == Ev("fulfilled", stage, "", doc, "", <<>>)
       IN  /\ pending' = [pending EXCEPT ![r] = NoOutcome]
           /\ UNCHANGED <<reqs, chain, respond, router, regs>>
           /\ IF respond[RespondSlot(r)]
              THEN IF Truthy(h.middleware)
                   THEN /\ locals' = [locals EXCEPT ![r] = SetProp(@, PropertyKey(h.middleware), doc)]
                        /\ sent' = sent
                        /\ pc' = [pc EXCEPT ![r] = "routed"]
                        /\ log' = [log EXCEPT ![r] =
                                     @ \o <<settled,
                                            Ev("store", stage, PropertyKey(h.middleware), doc, "", <<>>),
                                            Ev("next", stage, "", Undef, "", <<>>)>>]
                   ELSE /\ locals' = locals
                        /\ sent' = [sent EXCEPT ![r] = jw.sent]
                        /\ pc' = [pc EXCEPT ![r] = "done"]
                        /\ log' = [log EXCEPT ![r] =
                                     @ \o <<settled>> \o
                                     (IF jw.threw
                                      THEN <<Ev("escape", stage, "", Undef, "", <<>>)>>
                                      ELSE jw.evs)]
              ELSE /\ UNCHANGED <<locals, sent>>
                   /\ log' = [log EXCEPT ![r] = Append(@, settled)]
                   /\ pc' = [pc EXCEPT ![r] = "done"]

(***************************************************************************)
(* result.then's second callback: the handler threw, or its promise        *)
(* rejected, with err.                                                     *)
(***************************************************************************)
OnRejected(r) ==
    /\ pc[r] = "awaiting"
    /\ pending[r].kind = "throw"
    /\ LET stage == Len(chain[r])
           err == pending[r].val
           body == ErrorBody(FailureText(err))
           jw == JsonWrite(sent[r], stage, FailureStatus(pending[r]), body)
           rw == RawWrite(sent[r], stage, body)
           settled == Ev("rejected", stage, "", err, pending[r].status, <<>>)
       IN  /\ pending' = [pending EXCEPT ![r] = NoOutcome]
           /\ pc' = [pc EXCEPT ![r] = "done"]
           /\ UNCHANGED <<reqs, chain, respond, locals, router, regs>>
           /\ IF ~WritesFailure(respond[RespondSlot(r)])
              THEN /\ sent' = sent
                   /\ log' = [log EXCEPT ![r] = Append(@, settled)]
              ELSE IF ~HasToString(err)
              \* err.toString() throws in the try block and again in the catch block
              THEN /\ sent' = sent
                   /\ log' = [log EXCEPT ![r] =
                                @ \o <<settled, Ev("escape", stage, "", Undef, "", <<>>)>>]
              ELSE IF jw.threw
                   THEN /\ sent' = [sent EXCEPT ![r] = rw.sent]
                        /\ log' = [log EXCEPT ![r] = @ \o <<settled>> \o rw.evs]
                   ELSE /\ sent' = [sent EXCEPT ![r] = jw.sent]
                        /\ log' = [log EXCEPT ![r] = @ \o <<settled>> \o jw.evs]

Next ==
    \/ \E r \in Ids : \E h \in Catalogue : Dispatch(r, h)
    \/ \E r \in Ids : OnFulfilled(r)
    \/ \E r \in Ids : OnRejected(r)

Spec == Init /\ [][Next]_vars

(***************************************************************************)
(* Several requests in flight against one router: a middleware route, then *)
(* the route of the request's path.  The router calls a closure for one    *)
(* request while the handlers of others are awaited.                       *)
(***************************************************************************)
ConcRequests ==
    {Request(Prop("param1", Str(s)), EmptyObj, EmptyObj) : s \in {"5", "a"}}

\* The routes that can match next for request r.
ConcRoutes(r) ==
    CASE Len(chain[r]) = 0 -> {mwUpper}
      [] Len(chain[r]) = 1 -> {resThenNum, reqAny}
      [] OTHER -> {}

InitConc == InitWith(1 .. MaxRequests, ConcRequests)

NextConc ==
    \/ \E r \in Ids : \E h \in ConcRoutes(r) : Dispatch(r, h)
    \/ \E r \in Ids : OnFulfilled(r)
    \/ \E r \in Ids : OnRejected(r)

SpecConc == InitConc /\ [][NextConc]_vars

(***************************************************************************)
(* Registration: the decorator returned by `request`, applied to method h  *)
(* of class s when the class is defined, and then requests routed through  *)
(* the routes so registered.                                               *)
(***************************************************************************)
\* One route of a router: router[type](path, closure); the closure holds the
\* method, its args and the target it calls the method on.
Binding(s, h) == [type |-> h.type, path |-> RoutePath(h), h |-> h, target |-> s]

\* The decorator's body on a class whose router is `table`: the table it
\* leaves and what it threw.  argKeys is null for a method without
\* parameters, and null.map(...) throws a TypeError.
RegisterOn(table, s, h) ==
    LET created == IF h.variant = "explicit" /\ ~table.present THEN NewRouter ELSE table
    IN  IF ~created.present
        THEN [table |-> table, threw |-> "Error"]
        ELSE IF RegisteredArgs(h) = <<>>
        THEN [table |-> created, threw |-> "TypeError"]
        ELSE [table |-> [created EXCEPT !.routes = Append(@, Binding(s, h))],
              threw |-> "none"]

Register(s, h) ==
    /\ Len(regs) < MaxRegs
    \* the classes are defined before the application listens
    /\ \A r \in Ids : chain[r] = <<>>
    /\ router' = [router EXCEPT ![s] = RegisterOn(@, s, h).table]
    /\ regs' = Append(regs, [target |-> s, h |-> h, threw |-> RegisterOn(router[s], s, h).threw])
    /\ UNCHANGED <<reqs, locals, sent, chain, pc, pending, respond, log>>

\* The router of class s calls the closure of its k-th route for request r.
DispatchRoute(r, s, k) ==
    /\ k \in DOMAIN router[s].routes
    /\ Dispatch(r, router[s].routes[k].h)

\* The methods decorated in SpecReg.
RegCatalogue ==
    {someRoute1("implicit"), someRoute1("explicit"), mwHeaders,
     noArgs("implicit"), noArgs("explicit"), callsOut("implicit"), callsOut("explicit")}

RegRequests ==
    {Request(Prop("a", Str("x")), EmptyObj, EmptyObj),
     Request(SetProp(Props2("a)", Str("x"), "{", Str("y")), "g(", Str("z")), EmptyObj, EmptyObj),
     Request(Props2("param1", Str("a"), "param2", Str("5")), EmptyObj, EmptyObj),
     Request(EmptyObj, EmptyObj, Prop("token", Str("a")))}

InitReg == InitWith({1}, RegRequests)

NextReg ==
    \/ \E s \in Scopes : \E h \in RegCatalogue : Register(s, h)
    \/ \E r \in Ids : \E s \in Scopes : \E k \in 1 .. MaxRegs : DispatchRoute(r, s, k)
    \/ \E r \in Ids : OnFulfilled(r)
    \/ \E r \in Ids : OnRejected(r)

SpecReg == InitReg /\ [][NextReg]_vars

(***************************************************************************)
(* Twins: two requests that carry the same data and pass through the same  *)
(* routes.  The handlers called for request 1 return or throw              *)
(* synchronously; those called for request 2 return a promise that later   *)
(* fulfils or rejects.                                                     *)
(***************************************************************************)
TwinRequests ==
    {Request(Prop("param1", Str("a")), EmptyObj, EmptyObj),
     Request(Props2("param1", Str("a"), "user", Str("a")), EmptyObj, EmptyObj),
     Request(EmptyObj, EmptyObj, Prop("user", Str("1")))}

\* The routes that can match next for request r.
TwinRoutes(r) ==
    CASE Len(chain[r]) = 0 -> {mwUser}
      [] Len(chain[r]) = 1 -> {someRoute4("explicit"), resMw}
      [] OTHER -> {}

InitTwin == InitWith({1, 2}, TwinRequests) /\ reqs[1] = reqs[2]

NextTwin ==
    \/ \E r \in Ids : \E h \in TwinRoutes(r) :
          /\ Dispatch(r, h)
          /\ pc'[r] = "awaiting" => pending'[r].async = (r = 2)
    \/ \E r \in Ids : OnFulfilled(r)
    \/ \E r \in Ids : OnRejected(r)

SpecTwin == InitTwin /\ [][NextTwin]_vars

(***************************************************************************)
(* Encoded values: a client encodes a number, a boolean or an array as the *)
(* string it puts in the query, the body or a header, and a route with one *)
(* parameter of that declared type resolves it.                            *)
(***************************************************************************)
\* A value with its declared type: raw is the string that encodes it, val
\* the value itself.
Encoded ==
    {[type |-> "Number", raw |-> Str(Join(NumberToString(n))), val |-> Num(NumText(n))] :
        n \in Nums}
    \cup {[type |-> "Boolean", raw |-> Str(IF b THEN "1" ELSE "0"), val |-> Bool(b)] :
            b \in BOOLEAN}
    \cup {[type |-> "Array", raw |-> Str(Join(JSONstringify(a))),
           val |-> Arr(Join(JSONstringify(a)))] : a \in Arrays}

Sources == {"query", "body", "headers"}
RoundTypes == {"Number", "Boolean", "Array"}

RoundRequests ==
    {[Request(EmptyObj, EmptyObj, EmptyObj) EXCEPT ![src] = Prop("param1", e.raw)] :
        e \in Encoded, src \in Sources}

RoundHandlers ==
    {Typed(v, T) : v \in {"implicit", "explicit"}, T \in RoundTypes}
    \cup {TypedFrom(T, p) : T \in RoundTypes, p \in {"body", "headers"}}

InitRound == InitWith({1}, RoundRequests)

NextRound ==
    \/ \E r \in Ids : \E h \in RoundHandlers : Dispatch(r, h)
    \/ \E r \in Ids : OnFulfilled(r)

SpecRound == InitRound /\ [][NextRound]_vars

(***************************************************************************)
(* Reading the log.                                                        *)
(***************************************************************************)
\* The events of request r at a stage of its pipeline.
AtStage(r, stage) == SelectSeq(log[r], LAMBDA e : e.stage = stage)
\* The events of a kind in a sequence of events.
OfKind(evs, kinds) == SelectSeq(evs, LAMBDA e : e.ev \in kinds)
\* A response written by the layer.
LayerWrites == {"json", "raw", "writeAfterEnd", "end"}

(***************************************************************************)
(* C1  Fail-fast parameter resolution.  Whenever resolving a parameter of  *)
(* a request has failed, the very next thing the layer does is write       *)
(* status 400 with the body {error: <the failure's message>}, and that is  *)
(* the last thing it does for the request: no later parameter is resolved, *)
(* the handler is not invoked, next is not called, nothing else is written.*)
(***************************************************************************)
C1_FailFast ==
    \A r \in Ids : \A i \in DOMAIN log[r] :
        (log[r][i].ev = "resolve" /\ log[r][i].status = "failed") =>
            /\ Len(log[r]) = i + 1
            /\ log[r][i + 1] = Ev("json", log[r][i].stage, "", ErrorBody(log[r][i].args), "400", <<>>)
            /\ pc[r] = "done"
            /\ OfKind(AtStage(r, log[r][i].stage), {"invoke", "next", "store", "raw", "end"}) = <<>>
            /\ Len(OfKind(log[r], {"json"})) = 1

\* A request whose first of two parameters failed and got its 400.
C1_Witness ==
    \E r \in Ids : \E i \in DOMAIN log[r] :
        /\ log[r][i].ev = "resolve" /\ log[r][i].status = "failed"
        /\ Len(RegisteredArgs(chain[r][log[r][i].stage])) = 2
        /\ RegisteredArgs(chain[r][log[r][i].stage])[1].key = log[r][i].key
        /\ pc[r] = "done"
        /\ log[r][Len(log[r])].status = "400"

\* The events of request r that follow its i-th.
After(r, i) == SubSeq(log[r], i + 1, Len(log[r]))
\* Whether the handler's body had started the response when it settled.
BodyWrote(r, stage) == OfKind(AtStage(r, stage), {"handlerWrite"}) # <<>>
\* The status the claim expects for a failure: its own, else 500.
ExpectedFailureStatus(e) == IF e.status # "none" THEN e.status ELSE "500"

HandlerAt(r, stage) == chain[r][stage]
Resolves(r, stage) == OfKind(AtStage(r, stage), {"resolve"})
Invokes(r, stage) == OfKind(AtStage(r, stage), {"invoke"})
\* The handler declares a parameter named res.
DeclaresResParam(h) == \E j \in DOMAIN h.args : h.args[j].key = "res"
\* The i-th event of r is the latest store under its key before a stage.
LatestStoreBefore(r, i, stage) ==
    /\ log[r][i].ev = "store"
    /\ log[r][i].stage < stage
    /\ \A i2 \in DOMAIN log[r] :
          (i2 > i /\ log[r][i2].ev = "store" /\ log[r][i2].key = log[r][i].key)
              => log[r][i2].stage >= stage

(***************************************************************************)
(* C3 as stated.  After a handler registered with middleware key k (not    *)
(* declaring res) has completed with v: v is stored under k, then next is  *)
(* called once and nothing is written; and every handler later in the      *)
(* pipeline that declares a parameter named k takes it from the context,   *)
(* consulting no source, and is called with v for it.                      *)
(***************************************************************************)
C3_Original ==
    \A r \in Ids : \A i \in DOMAIN log[r] :
        /\ (log[r][i].ev = "fulfilled"
              /\ HandlerAt(r, log[r][i].stage).middleware.t = "string"
              /\ ~DeclaresResParam(HandlerAt(r, log[r][i].stage))) =>
                /\ Len(log[r]) >= i + 2
                /\ log[r][i + 1] = Ev("store", log[r][i].stage,
                                      HandlerAt(r, log[r][i].stage).middleware.v,
                                      log[r][i].val, "", <<>>)
                /\ log[r][i + 2].ev = "next"
                /\ Len(OfKind(AtStage(r, log[r][i].stage), {"next"})) = 1
                /\ OfKind(AtStage(r, log[r][i].stage), LayerWrites) = <<>>
        /\ \A s2 \in DOMAIN chain[r] : \A j \in DOMAIN HandlerAt(r, s2).args :
              (/\ LatestStoreBefore(r, i, s2)
               /\ HandlerAt(r, log[r][i].stage).middleware.t = "string"
               /\ HandlerAt(r, s2).args[j].key = log[r][i].key) =>
                    /\ j \in DOMAIN Resolves(r, s2) => Resolves(r, s2)[j].val = Str("locals")
                    /\ Invokes(r, s2) # <<>> => Invokes(r, s2)[1].args[j] = log[r][i].val

\* The part of C3 the code keeps: the store under k, then next, once, and no
\* response; a later stage's events all follow the store; and a handler whose
\* registered parameter name is k is called with the value stored under k.
C3_HandOff ==
    \A r \in Ids : \A i \in DOMAIN log[r] :
        /\ (log[r][i].ev = "fulfilled"
              /\ HandlerAt(r, log[r][i].stage).middleware.t = "string"
              /\ ~DeclaresResParam(HandlerAt(r, log[r][i].stage))) =>
                /\ Len(log[r]) >= i + 2
                /\ log[r][i + 1] = Ev("store", log[r][i].stage,
                                      HandlerAt(r, log[r][i].stage).middleware.v,
                                      log[r][i].val, "", <<>>)
                /\ log[r][i + 2].ev = "next"
                /\ Len(OfKind(AtStage(r, log[r][i].stage), {"next"})) = 1
                /\ OfKind(AtStage(r, log[r][i].stage), LayerWrites) = <<>>
        /\ \A i2 \in DOMAIN log[r] : i2 > i => log[r][i2].stage >= log[r][i].stage
        /\ \A s2 \in DOMAIN chain[r] : \A j \in DOMAIN RegisteredArgs(HandlerAt(r, s2)) :
              (/\ LatestStoreBefore(r, i, s2)
               /\ RegisteredArgs(HandlerAt(r, s2))[j].key = log[r][i].key) =>
                    /\ j \in DOMAIN Resolves(r, s2) => Resolves(r, s2)[j].val = Str("locals")
                    /\ Invokes(r, s2) # <<>> => Invokes(r, s2)[1].args[j] = log[r][i].val

(***************************************************************************)
(* C4  A handler that declares res takes control of the response: once it  *)
(* has completed successfully, whatever it returned and whether or not a   *)
(* middleware key is configured, the layer has written nothing, stored     *)
(* nothing in the context and not called next.                             *)
(***************************************************************************)
C4_ResTakesControl ==
    \A r \in Ids : \A i \in DOMAIN log[r] :
        (log[r][i].ev = "fulfilled" /\ DeclaresResParam(HandlerAt(r, log[r][i].stage))) =>
            /\ OfKind(AtStage(r, log[r][i].stage),
                      LayerWrites \cup {"store", "next", "escape"}) = <<>>
            /\ Len(log[r]) = i
            /\ pc[r] = "done"
            /\ \A k \in DOMAIN locals[r] :
                  \E i2 \in DOMAIN log[r] : log[r][i2].ev = "store" /\ log[r][i2].key = k

\* A handler with res and a middleware key completed with a value.
C4_Witness ==
    \E r \in Ids : \E i \in DOMAIN log[r] :
        /\ log[r][i].ev = "fulfilled"
        /\ log[r][i].val = Str("userId")
        /\ HandlerAt(r, log[r][i].stage) = resMw
        /\ pc[r] = "done"

(***************************************************************************)
(* C5 as stated.  After a use handler registered without an explicit       *)
(* middleware key has completed with the object {user: "u1"}, each field   *)
(* of the result is in the context (user = "u1"), next has been called and *)
(* nothing has been written.                                               *)
(***************************************************************************)
C5_MergeMode ==
    \A r \in Ids : \A i \in DOMAIN log[r] :
        (/\ log[r][i].ev = "fulfilled"
         /\ log[r][i].val = UserObj
         /\ HandlerAt(r, log[r][i].stage).type = "use"
         /\ HandlerAt(r, log[r][i].stage).middleware \in {Undef, Bool(TRUE)}
         /\ ~DeclaresResParam(HandlerAt(r, log[r][i].stage))) =>
            /\ \A f \in DOMAIN Fields(log[r][i].val) :
                  \E i2 \in DOMAIN log[r] :
                      /\ log[r][i2].ev = "store" /\ log[r][i2].stage = log[r][i].stage
                      /\ log[r][i2].key = f /\ log[r][i2].val = Fields(log[r][i].val)[f]
            /\ OfKind(AtStage(r, log[r][i].stage), {"next"}) # <<>>
            /\ OfKind(AtStage(r, log[r][i].stage), LayerWrites) = <<>>

\* A sequence of message pieces holds a piece.
Holds(msg, piece) == \E k \in DOMAIN msg : msg[k] = piece
\* res was bound at a stage before the i-th event of r.
ResBoundBefore(r, i) ==
    \E i0 \in DOMAIN log[r] :
        /\ i0 < i /\ log[r][i0].stage = log[r][i].stage
        /\ log[r][i0].ev = "resolve" /\ log[r][i0].key = "res"

(***************************************************************************)
(* C6 as stated.  Whenever a parameter found in a source has failed its    *)
(* type validation, the failure's message (the 400 body's error) holds the *)
(* name of the parameter and the expected kind.                            *)
(***************************************************************************)
C6_MessageNamesParameter ==
    \A r \in Ids : \A s \in DOMAIN chain[r] : \A j \in DOMAIN Resolves(r, s) :
        (Resolves(r, s)[j].status = "failed" /\ Resolves(r, s)[j].val # Str("none")) =>
            /\ Holds(Resolves(r, s)[j].args, HandlerAt(r, s).args[j].key)
            /\ Holds(Resolves(r, s)[j].args, Expected(HandlerAt(r, s).args[j].type))
            /\ OfKind(AtStage(r, s), {"json"}) =
                 <<Ev("json", s, "", ErrorBody(Resolves(r, s)[j].args), "400", <<>>)>>

(***************************************************************************)
(* C7 as stated.  No failure of a response write, on the success path, on  *)
(* the error path or in the fallback, escapes the dispatcher.              *)
(***************************************************************************)
C7_NothingEscapes ==
    \A r \in Ids : OfKind(log[r], {"escape"}) = <<>>

(***************************************************************************)
(* C8 as stated.  A parameter not named req or res is taken from the first *)
(* of the context, the query, the body and the headers (under the          *)
(* lower-cased name) that holds its name: from the context as it is, from  *)
(* a source coerced per the declared type; in none of them, resolution     *)
(* fails with the missing-parameter message naming parameter and handler.  *)
(***************************************************************************)
FirstOfAll(r, key) ==
    CASE HasProp(locals[r], key) -> "locals"
      [] HasProp(reqs[r].query, key) -> "query"
      [] HasProp(reqs[r].body, key) -> "body"
      [] HasProp(reqs[r].headers, toLowerCase(key)) -> "headers"
      [] OTHER -> "none"

\* What the log must hold of the j-th parameter of the last handler of r,
\* named key when registered, when src is where it is to be taken from.
ResolvedFrom(r, j, key, src) ==
    LET s == Len(chain[r])
        h == HandlerAt(r, s)
        e == Resolves(r, s)[j]
        raw == reqs[r][src][IF src = "headers" THEN toLowerCase(key) ELSE key]
        args == Invokes(r, s)[1].args
    IN  /\ e.val = Str(src)
        /\ src = "locals" =>
              /\ e.status = "ok"
              /\ Invokes(r, s) # <<>> => args[j] = locals[r][key]
        /\ src = "none" =>
              /\ e.status = "failed"
              /\ e.args = <<"Parameter ", key, " is missing in ", h.method>>
        /\ (src \in {"query", "body", "headers"} /\ h.variant = "implicit") =>
              /\ e.status = "ok" <=> Coerce(h.args[j].type, raw, key).ok
              /\ Invokes(r, s) # <<>> => args[j] = Coerce(h.args[j].type, raw, key).val
        /\ (src \in {"query", "body", "headers"} /\ h.variant = "explicit") =>
              \* the coerced value is in the source and in the argument list
              (Invokes(r, s) # <<>> => (args[j] = raw /\ Coerce(h.args[j].type, raw, key).ok))

C8_Original ==
    \A r \in Ids :
        (pc[r] # "routed" /\ chain[r] # <<>>) =>
            \A j \in DOMAIN Resolves(r, Len(chain[r])) :
                LET key == HandlerAt(r, Len(chain[r])).args[j].key
                IN  key \notin {"req", "res"} => ResolvedFrom(r, j, key, FirstOfAll(r, key))

(***************************************************************************)
(* C8 amended.  A parameter not named req or res is taken from the context *)
(* when the context holds its name, as it is.  Otherwise the implicit      *)
(* variant takes it from the first of the query, the body and the headers  *)
(* (under the lower-cased name) that holds the name, and the explicit      *)
(* variant from the one configured source only; the value is coerced per   *)
(* the declared type.  In the explicit variant with the headers as source  *)
(* the name is lower-cased for the context too.  A name found nowhere      *)
(* fails with the missing-parameter message naming parameter and handler.  *)
(***************************************************************************)
FirstPerVariant(r, h, key) ==
    CASE HasProp(locals[r], key) -> "locals"
      [] h.variant = "implicit" /\ HasProp(reqs[r].query, key) -> "query"
      [] h.variant = "implicit" /\ HasProp(reqs[r].body, key) -> "body"
      [] h.variant = "implicit" /\ HasProp(reqs[r].headers, toLowerCase(key)) -> "headers"
      [] h.variant = "explicit" /\ HasProp(reqs[r][h.paramsType], key) -> h.paramsType
      [] OTHER -> "none"

C8_Precedence ==
    \A r \in Ids :
        (pc[r] # "routed" /\ chain[r] # <<>>) =>
            \A j \in DOMAIN Resolves(r, Len(chain[r])) :
                LET h == HandlerAt(r, Len(chain[r]))
                    key == IF h.variant = "explicit" /\ h.paramsType = "headers"
                           THEN toLowerCase(h.args[j].key) ELSE h.args[j].key
                IN  key \notin {"req", "res"} => ResolvedFrom(r, j, key, FirstPerVariant(r, h, key))

\* A parameter held by the query, the body and the headers was taken from the
\* query; and one held by the context and the query from the context.
C8_Witness ==
    \E r \in Ids :
        /\ pc[r] = "awaiting"
        /\ Len(chain[r]) = 2
        /\ HandlerAt(r, 2) = someRoute4("implicit")
        /\ HasProp(reqs[r].query, "user")
        /\ Resolves(r, 2)[1].val = Str("locals")
        /\ Resolves(r, 1)[1].val = Str("query")

(***************************************************************************)
(* C9 as stated.  Once res has been bound for a call, the layer writes no  *)
(* error response for it: none when the handler throws or rejects, none    *)
(* otherwise.                                                              *)
(***************************************************************************)
C9_Original ==
    \A r \in Ids : \A i \in DOMAIN log[r] :
        (log[r][i].ev \in LayerWrites) => ~ResBoundBefore(r, i)

(***************************************************************************)
(* C9 amended.  Binding res suppresses the automatic success reply only.   *)
(* When a handler that declares res throws or rejects (with a failure that *)
(* has a string form) the layer still writes {error: err.toString()}: with *)
(* status 500 through status/JSON, or raw and followed by the end of the   *)
(* stream when the handler's body had started the response.  And when a    *)
(* parameter after res fails to resolve, the layer still writes the 400.   *)
(***************************************************************************)
C9_ErrorsStillWritten ==
    \A r \in Ids : \A i \in DOMAIN log[r] :
        /\ (log[r][i].ev = "rejected" /\ ResBoundBefore(r, i) /\ HasToString(log[r][i].val)) =>
              /\ Len(log[r]) > i
              /\ log[r][i + 1].ev \in {"json", "raw", "writeAfterEnd"}
              /\ log[r][i + 1].val = ErrorBody(ErrToString(log[r][i].val))
              /\ log[r][i + 1].ev = "json" <=> ~BodyWrote(r, log[r][i].stage)
              /\ log[r][i + 1].ev = "json" => log[r][i + 1].status = "500"
        /\ (log[r][i].ev = "resolve" /\ log[r][i].status = "failed" /\ ResBoundBefore(r, i)) =>
              /\ Len(log[r]) > i
              /\ log[r][i + 1].ev = "json"
              /\ log[r][i + 1].status = "400"

\* A handler that declares res had started its response and then failed: the
\* layer wrote the failure raw.  (The 400 after res is C9_Witness400.)
C9_Witness ==
    \E r \in Ids : \E i \in DOMAIN log[r] :
        /\ log[r][i].ev = "rejected"
        /\ ResBoundBefore(r, i)
        /\ BodyWrote(r, log[r][i].stage)
        /\ Len(log[r]) > i
        /\ log[r][i + 1].ev = "raw"

C9_Witness400 ==
    \E r \in Ids : \E i \in DOMAIN log[r] :
        /\ log[r][i].ev = "resolve" /\ log[r][i].status = "failed"
        /\ ResBoundBefore(r, i)
        /\ log[r][Len(log[r])].status = "400"

(***************************************************************************)
(* C10  Isolation of concurrent requests.  With several requests in flight *)
(* and interleaved in any order where a handler is awaited, what the layer *)
(* has done for each request (parameters resolved, arguments passed,       *)
(* response written or next called), its context and its response are     *)
(* what processing that request alone gives for the same handlers and the  *)
(* same handler outcomes.                                                  *)
(***************************************************************************)
\* What the handler's body did at a stage of r: inputs of the replay.
Settles(r, stage) == OfKind(AtStage(r, stage), {"fulfilled", "rejected"})
WroteAt(r, stage) ==
    CASE OfKind(AtStage(r, stage), {"handlerEnd"}) # <<>> -> "full"
      [] OfKind(AtStage(r, stage), {"handlerWrite"}) # <<>> -> "partial"
      [] OTHER -> "none"

\* One stage of one request processed alone, from the request rq, the
\* context loc and the response st it starts with; settle is <<>> while the
\* handler is awaited, else the event of its outcome.
SoloStage(h, stage, rq, loc, st, wrote, settle) ==
    LET res == ResolveArgs(h, rq, loc)
        bw == BodyWrite(st, stage, wrote)
        called == ResolveEvents(stage, res.resolved) \o
                  <<Ev("invoke", stage, h.method, Undef, "", res.argValues)>> \o bw.evs
        e == settle[1]
        ok == JsonWrite(bw.sent, stage, "200", e.val)
        body == ErrorBody(ErrToString(e.val))
        ko == JsonWrite(bw.sent, stage, "500", body)
        escape == <<Ev("escape", stage, "", Undef, "", <<>>)>>
    IN  CASE ~res.ok ->
               [evs |-> ResolveEvents(stage, res.resolved) \o
                        <<Ev("json", stage, "", ErrorBody(res.msg), "400", <<>>)>>,
                loc |-> loc, st |-> [headersSent |-> TRUE, ended |-> TRUE], rq |-> res.rq]
          [] res.ok /\ settle = <<>> ->
               [evs |-> called, loc |-> loc, st |-> bw.sent, rq |-> res.rq]
          [] res.ok /\ settle # <<>> /\ e.ev = "fulfilled" ->
               (IF ~res.respond
                THEN [evs |-> called \o settle, loc |-> loc, st |-> bw.sent, rq |-> res.rq]
                ELSE IF Truthy(h.middleware)
                THEN [evs |-> called \o settle \o
                              <<Ev("store", stage, h.middleware.v, e.val, "", <<>>),
                                Ev("next", stage, "", Undef, "", <<>>)>>,
                      loc |-> SetProp(loc, h.middleware.v, e.val), st |-> bw.sent, rq |-> res.rq]
                ELSE [evs |-> called \o settle \o (IF ok.threw THEN escape ELSE ok.evs),
                      loc |-> loc, st |-> ok.sent, rq |-> res.rq])
          [] OTHER ->
               (IF ~HasToString(e.val)
                THEN [evs |-> called \o settle \o escape, loc |-> loc, st |-> bw.sent, rq |-> res.rq]
                ELSE IF ko.threw
                THEN [evs |-> called \o settle \o RawWrite(bw.sent, stage, body).evs,
                      loc |-> loc, st |-> RawWrite(bw.sent, stage, body).sent, rq |-> res.rq]
                ELSE [evs |-> called \o settle \o ko.evs, loc |-> loc, st |-> ko.sent, rq |-> res.rq])

\* The stages of r from a stage on, processed alone.
RECURSIVE SoloFrom(_, _, _)
SoloFrom(r, stage, acc) ==
    IF stage > Len(chain[r])
    THEN acc
    ELSE LET one == SoloStage(chain[r][stage], stage, acc.rq, acc.loc, acc.st,
                              WroteAt(r, stage), Settles(r, stage))
         IN  SoloFrom(r, stage + 1,
                [evs |-> acc.evs \o one.evs, loc |-> one.loc, st |-> one.st, rq |-> one.rq])

\* Request r processed alone.  The routes of SpecConc read their parameters
\* through the implicit search, which leaves req as it came.
Solo(r) == SoloFrom(r, 1, [evs |-> <<>>, loc |-> EmptyObj, st |-> FreshResponse, rq |-> reqs[r]])

C10_Isolation ==
    \A r \in Ids :
        /\ log[r] = Solo(r).evs
        /\ locals[r] = Solo(r).loc
        /\ sent[r] = Solo(r).st

\* Two requests awaited together at their second route, one whose handler
\* declares res and one whose handler does not and is about to fail.
C10_Witness ==
    /\ Cardinality(Ids) >= 2
    /\ \E r1 \in Ids : \E r2 \in Ids \ {r1} :
        /\ pc[r1] = "awaiting" /\ pc[r2] = "awaiting"
        /\ chain[r1] = <<mwUpper, resThenNum>>
        /\ chain[r2] = <<mwUpper, reqAny>>
        /\ respond[r1] = FALSE /\ respond[r2] = TRUE
        /\ pending[r2].kind = "throw"
        /\ HasProp(locals[r1], "User") /\ HasProp(locals[r2], "User")

\* The decorators applied to class s so far, in order.
RegsOn(s) == SelectSeq(regs, LAMBDA e : e.target = s)
\* The path the claim gives a handler's route.
ExpectedPath(h) == IF h.type \in {"get", "post"} THEN <<"/", h.method>> ELSE <<"/">>

(***************************************************************************)
(* C11 as stated.  Registering a handler on a class without a routing      *)
(* table creates the table and registers the route instead of failing, and *)
(* later registrations reuse the table: after any sequence of              *)
(* registrations no registration has failed and the table of each class    *)
(* holds one route per handler registered on it, in order, with path       *)
(* "/" + name for get and post handlers and "/" for use handlers.          *)
(***************************************************************************)
C11_Original ==
    \A s \in Scopes :
        RegsOn(s) # <<>> =>
            /\ router[s].present
            /\ \A k \in DOMAIN RegsOn(s) : RegsOn(s)[k].threw = "none"
            /\ Len(router[s].routes) = Len(RegsOn(s))
            /\ \A k \in DOMAIN RegsOn(s) :
                  /\ router[s].routes[k].h = RegsOn(s)[k].h
                  /\ router[s].routes[k].type = RegsOn(s)[k].h.type
                  /\ router[s].routes[k].path = ExpectedPath(RegsOn(s)[k].h)

\* The part of C11 the code keeps.  A registration through the explicit
\* variant leaves the class with a table, and one through the implicit
\* variant on a class without a table fails; the table of a class holds,
\* in order, one route per registration on it that did not fail, with the
\* path of the claim; and a registration fails only for want of a table
\* (implicit variant) or for a method in whose text no parameter is found.
C11_Registration ==
    \A s \in Scopes :
        LET done == SelectSeq(RegsOn(s), LAMBDA e : e.threw = "none")
        IN  /\ router[s].present <=>
                  (DeclaredRouters[s].present
                     \/ \E k \in DOMAIN RegsOn(s) : RegsOn(s)[k].h.variant = "explicit")
            /\ Len(router[s].routes) = Len(done)
            /\ \A k \in DOMAIN done :
                  /\ router[s].routes[k].h = done[k].h
                  /\ router[s].routes[k].target = s
                  /\ router[s].routes[k].type = done[k].h.type
                  /\ router[s].routes[k].path = ExpectedPath(done[k].h)
            /\ \A k \in DOMAIN RegsOn(s) :
                  LET e == RegsOn(s)[k]
                  IN  /\ e.threw = "Error" =>
                            /\ e.h.variant = "implicit"
                            /\ ~DeclaredRouters[s].present
                            /\ \A k2 \in 1 .. (k - 1) : RegsOn(s)[k2].h.variant = "implicit"
                      /\ e.threw = "TypeError" => e.h.args = <<>>
                      /\ (e.h.variant = "explicit" /\ e.h.args # <<>>) => e.threw = "none"

(***************************************************************************)
(* C12  Coercion round trip.  When a route with one parameter of declared  *)
(* type number, boolean or array is called for a request whose source      *)
(* holds, under the parameter's name, the string that encodes a value of   *)
(* that type (a number as its numeric string, a boolean as "1" or "0", an  *)
(* array as its JSON text), resolution does not fail and the handler is    *)
(* called with a value equal to the original.                              *)
(***************************************************************************)
C12_RoundTrip ==
    [][\A r \in Ids : \A e \in Encoded : \A src \in Sources :
          LET stage == Len(chain'[r])
              h == chain'[r][stage]
              evs == SubSeq(log'[r], Len(log[r]) + 1, Len(log'[r]))
          IN  (/\ stage = Len(chain[r]) + 1
               /\ Len(h.args) = 1 /\ BodyText(h) = <<" ">>
               /\ h.args[1].key = "param1" /\ h.args[1].type = e.type
               /\ ~HasProp(locals[r], "param1")
               /\ h.variant = "explicit" => h.paramsType = src
               /\ \A other \in Sources \ {src} : ~HasProp(reqs[r][other], "param1")
               /\ HasProp(reqs[r][src], "param1")
               /\ reqs[r][src]["param1"] = e.raw) =>
                  /\ pc'[r] = "awaiting"
                  /\ OfKind(evs, {"json", "escape"}) = <<>>
                  /\ OfKind(evs, {"invoke"}) =
                       <<Ev("invoke", stage, h.method, Undef, "", <<e.val>>)>>]_vars

\* The JSON text "[1,2]" in the query was resolved for a parameter declared
\* an array, and the handler called with the array [1,2].
C12_Witness ==
    \E r \in Ids :
        /\ pc[r] = "awaiting"
        /\ chain[r] = <<Typed("implicit", "Array")>>
        /\ reqs[r].query = Prop("param1", Str("[1,2]"))
        /\ Invokes(r, 1) # <<>>
        /\ Invokes(r, 1)[1].args = <<Arr(Join(JSONstringify(<<1, 2>>)))>>

\* What the handlers called for request r have done: the values they
\* completed with, the failures they failed with, what they wrote themselves.
Raw(r) == OfKind(log[r], {"fulfilled", "rejected", "handlerWrite", "handlerEnd"})
\* What the layer does with a handler's result.
LayerActs == LayerWrites \cup {"store", "next"}

(***************************************************************************)
(* C13  Uniform sync/async dispatch.  Two requests with the same data that *)
(* have passed through the same handlers, the handlers of one returning or *)
(* throwing synchronously and those of the other returning a promise that  *)
(* fulfils with the same values or rejects with the same failures, have    *)
(* had the same things done by the layer: the same parameters resolved,    *)
(* the same arguments passed, the same response, the same context, the     *)
(* same calls of next.  And for every request, the layer writes no         *)
(* response, stores nothing in the context and does not call next for a    *)
(* called handler before that handler has completed or failed.             *)
(***************************************************************************)
C13_Uniform ==
    /\ \A r1 \in Ids : \A r2 \in Ids :
          (/\ chain[r1] = chain[r2]
           /\ pc[r1] = pc[r2]
           /\ Raw(r1) = Raw(r2)
           /\ pending[r1].kind = pending[r2].kind
           /\ pending[r1].val = pending[r2].val
           /\ pending[r1].status = pending[r2].status) =>
                /\ log[r1] = log[r2]
                /\ locals[r1] = locals[r2]
                /\ sent[r1] = sent[r2]
                /\ reqs[r1] = reqs[r2]
    /\ \A r \in Ids : \A i \in DOMAIN log[r] :
          (log[r][i].ev \in LayerActs /\ Invokes(r, log[r][i].stage) # <<>>) =>
              \E i0 \in 1 .. (i - 1) :
                  /\ log[r][i0].stage = log[r][i].stage
                  /\ log[r][i0].ev \in {"fulfilled", "rejected"}

\* Both twins are at their second handler, which has thrown the same failure
\* for the one and returned a promise that rejects with it for the other,
\* after a first handler that returned a value for the one and a promise of
\* it for the other.
C13_Witness ==
    /\ Ids = {1, 2}
    /\ pc[1] = "awaiting" /\ pc[2] = "awaiting"
    /\ chain[1] = <<mwUser, someRoute4("explicit")>>
    /\ chain[2] = chain[1]
    /\ pending[1] = Outcome("throw", Err("boom"), "none", FALSE, "none")
    /\ pending[2] = Outcome("throw", Err("boom"), "none", TRUE, "none")
    /\ Raw(1) = Raw(2)
    /\ log[1] = log[2]

\* The position in the log of r of the invocation at a stage, 0 when the
\* handler of the stage has not been invoked.
InvokedAt(r, stage) ==
    IF \E i \in DOMAIN log[r] : log[r][i].ev = "invoke" /\ log[r][i].stage = stage
    THEN CHOOSE i \in DOMAIN log[r] : log[r][i].ev = "invoke" /\ log[r][i].stage = stage
    ELSE 0

(***************************************************************************)
(* C14 as stated.  For a request, the handler of a route is invoked at     *)
(* most once, and only after every parameter it declares has been resolved *)
(* successfully, in the order of declaration; it is called on the class    *)
(* that owns it, with exactly one argument per declared parameter, the     *)
(* i-th argument being the value resolved for the i-th declared parameter: *)
(* the request for req, the response for res, the value of the context or  *)
(* the coerced value of the source otherwise.                              *)
(***************************************************************************)
C14_Original ==
    /\ \A s \in Scopes : \A k \in DOMAIN router[s].routes : router[s].routes[k].target = s
    /\ \A r \in Ids : \A s \in DOMAIN chain[r] :
          LET h == HandlerAt(r, s)
              rs == Resolves(r, s)
              args == Invokes(r, s)[1].args
          IN  /\ Len(Invokes(r, s)) <= 1
              /\ Invokes(r, s) # <<>> =>
                    /\ Len(rs) = Len(h.args)
                    /\ \A j \in DOMAIN rs :
                          /\ rs[j].status = "ok"
                          /\ toLowerCase(rs[j].key) = toLowerCase(h.args[j].key)
                    /\ \A i \in DOMAIN log[r] :
                          (log[r][i].ev = "resolve" /\ log[r][i].stage = s) => i < InvokedAt(r, s)
                    /\ Len(args) = Len(h.args)
                    /\ \A j \in DOMAIN h.args :
                          /\ h.args[j].key = "req" => args[j] = ReqRef
                          /\ h.args[j].key = "res" => args[j] = ResRef
                          /\ (h.args[j].key \notin {"req", "res"}
                                /\ s = Len(chain[r]) /\ pc[r] = "awaiting") =>
                                LET src == rs[j].val.v
                                IN  /\ src = "locals" => args[j] = locals[r][rs[j].key]
                                    /\ (src \in Sources /\ h.variant = "explicit") =>
                                          args[j] = reqs[r][src][rs[j].key]
                                    /\ (src \in Sources /\ h.variant = "implicit") =>
                                          args[j] = Coerce(h.args[j].type,
                                                           reqs[r][src][SourceKey(h, rs[j].key, src)],
                                                           rs[j].key).val

\* The later of two handlers of r's pipeline that read the same name from
\* the query, the earlier as a number and successfully, the later as a string.
ReadsAgainAsString(r, s1, s2) ==
    /\ s1 < s2
    /\ Resolves(r, s1) # <<>> /\ Resolves(r, s2) # <<>>
    /\ Resolves(r, s1)[1].key = Resolves(r, s2)[1].key
    /\ Resolves(r, s1)[1].val = Str("query") /\ Resolves(r, s2)[1].val = Str("query")
    /\ Resolves(r, s1)[1].status = "ok"
    /\ HandlerAt(r, s1).args[1].type = "Number"
    /\ HandlerAt(r, s2).args[1].type = "String"

(***************************************************************************)
(* C15 as stated.  Nothing the layer does changes the query, the body or   *)
(* the headers of a request: coercion gives a new value to the argument    *)
(* list only.  So a handler later in the pipeline that reads a name an     *)
(* earlier handler has read sees the raw value: a query string that an     *)
(* earlier handler resolved as a number resolves as a string for a later   *)
(* one, as it would have, had the later handler run first.                 *)
(***************************************************************************)
C15_Original ==
    [][\A r \in Ids :
          /\ reqs'[r] = reqs[r]
          /\ \A s1 \in DOMAIN chain'[r] : \A s2 \in DOMAIN chain'[r] :
                ReadsAgainAsString(r, s1, s2)' => Resolves(r, s2)'[1].status = "ok"]_vars

\* The part of C15 the code keeps: the implicit variant coerces a local
\* copy, and no callback touches the request.
C15_ImplicitFrame ==
    [][\A r \in Ids :
          (reqs'[r] # reqs[r]) =>
              /\ Len(chain'[r]) = Len(chain[r]) + 1
              /\ chain'[r][Len(chain'[r])].variant = "explicit"]_vars

\* The terminal actions of the layer at a stage of r: a response, or next.
Terminal(r, stage) == OfKind(AtStage(r, stage), LayerWrites \cup {"next"})
\* The stage of r is over: a resolution has failed, or the handler has
\* completed or failed.
StageOver(r, stage) ==
    \/ \E j \in DOMAIN Resolves(r, stage) : Resolves(r, stage)[j].status = "failed"
    \/ Settles(r, stage) # <<>>

(***************************************************************************)
(* C16 as stated.  For a handler that does not declare res, once a         *)
(* resolution has failed or the handler has completed or failed, the layer *)
(* has done exactly one of: the 400 reply, the JSON success reply, the     *)
(* store in the context followed by next, the failure reply.  It has not   *)
(* both called next and written a response, and has done no second one.    *)
(***************************************************************************)
C16_ExactlyOne ==
    \A r \in Ids : \A s \in DOMAIN chain[r] :
        (~DeclaresResParam(HandlerAt(r, s)) /\ StageOver(r, s)) =>
            LET t == Terminal(r, s)
                done == Settles(r, s)
            IN  /\ Len(OfKind(t, {"json", "raw", "writeAfterEnd", "next"})) = 1
                /\ Settles(r, s) = <<>> => (t[1].ev = "json" /\ t[1].status = "400")
                /\ (done # <<>> /\ done[1].ev = "rejected") =>
                      (t[1].ev = "json" /\ t[1].status = "500")
                /\ (done # <<>> /\ done[1].ev = "fulfilled") =>
                      IF Truthy(HandlerAt(r, s).middleware)
                      THEN /\ t[1].ev = "next"
                           /\ Len(OfKind(AtStage(r, s), {"store"})) = 1
                      ELSE /\ t[1].ev = "json" /\ t[1].val = done[1].val
                           /\ OfKind(AtStage(r, s), {"store"}) = <<>>

\* The part of C16 the code keeps: never more than one terminal action,
\* never next together with a response, and none at all only where a
\* failure has escaped the callbacks.
C16_AtMostOne ==
    \A r \in Ids : \A s \in DOMAIN chain[r] :
        (~DeclaresResParam(HandlerAt(r, s)) /\ StageOver(r, s)) =>
            /\ Len(OfKind(Terminal(r, s), {"json", "raw", "writeAfterEnd", "next"})) <= 1
            /\ OfKind(Terminal(r, s), {"json", "raw", "writeAfterEnd", "next"}) = <<>> =>
                  OfKind(AtStage(r, s), {"escape"}) # <<>>
====
